---- MODULE Spec2Model ----
(***************************************************************************)
(* A model of the Poker Tallies and Rowies app (App component of           *)
(* src/unnamed/part_000): the React state of the component, the two keys   *)
(* it keeps in AsyncStorage, and one action per event handler.             *)
(*                                                                         *)
(* Conventions.  JavaScript arrays are sequences, so the JS index i is the *)
(* index i+1 here; rowieSettings.startHand and currentHandIndex keep their *)
(* JS (0-based) values.  A player name is a sequence of one-character      *)
(* strings.  Dates (Hand.date, GameRound.date, lastSaved) are left out:    *)
(* whether the persisted game is older than 24 hours is a choice made when *)
(* the app is loaded.  explicitlyEntered only drives the text shown in the *)
(* input boxes and is left out.                                            *)
(***************************************************************************)
EXTENDS Integers, Sequences, FiniteSets, TLC

-----------------------------------------------------------------------------
(* Program constants *)

MIN_PLAYERS == 2

MAX_PLAYERS == 7

BUBBLE_AMOUNT == 10

DEFAULT_POT == 5

(* Bounds of the model *)

\* player counts MIN_PLAYERS..MaxN are offered on the count screen
MaxN == 3

\* hands accepted over one run of the app
MaxHandsPlayed == 1

\* hands accepted over one run of a single session
MaxHandsSession == 2

\* hands in a session where an earlier hand is shown again and entered anew
MaxHandsCorrected == 3

\* records kept in the history
MaxHistory == 1

\* records kept in the history when one session follows another
MaxHistorySessions == 2

\* the largest number of hands typed for a Rowie
MaxRowieHands == 2

\* history writes handed to AsyncStorage and not yet done
MaxPending == 1

\* history writes under way where 'Save to History' is pressed again
MaxPendingSaves == 2

\* the longest vector given to a settlement calculation made on its own
MaxCalcN == 4

MaxTotal == 200

(* Inputs *)

\* the rows of chip amounts typed into the boxes of the hand screen
HandInputs ==
  {<<40, 0 - 40>>, <<50, 0 - 20, 0 - 30>>, <<0 - 10, 60, 0 - 50>>}

Letters == <<"a", "b", "c", "d", "e", "f", "g">>

\* a name typed in every box
AllNamed(n) == [i \in 1..n |-> <<Letters[i]>>]

\* a blank typed in the first box
BlankFirst == <<<<" ">>>>

PotInputs == {0, DEFAULT_POT}

\* the chip and point amounts given to a settlement calculation made on its
\* own, and the pot amounts
CalcAmounts == {0 - 30, 0 - 20, 0 - 15, 0, 15, 50}

CalcVectors == UNION {[1..n -> CalcAmounts] : n \in MIN_PLAYERS..MaxCalcN}

CalcPots == {3, DEFAULT_POT}

\* the chips the mercy calculation is made on: the chips of two players and
\* of three players, which sum to zero
MercyTotals == (0 - MaxTotal)..MaxTotal

MercyVectors ==
  {<<a, 0 - a>> : a \in MercyTotals}
    \cup {<<a, b, 0 - a - b>> : a \in MercyTotals, b \in {0, 40, 0 - 1000}}

-----------------------------------------------------------------------------
(* JavaScript values that are not integers.  A number of the program is an *)
(* integer of magnitude far below these codes.                             *)

JSNaN == 1000001

JSUndefined == 1000002

\* an empty slot of a sparse array
JSHole == 1000003

JSInfinity == 1000004

\* what JSON.parse gives back for a NaN, an Infinity or an undefined entry
JSNull == 1000005

IsNum(x) ==
  x \notin {JSNaN, JSUndefined, JSHole, JSInfinity, 0 - JSInfinity, JSNull}

\* the number an operand of an arithmetic operator is converted to
ToNumber(x) ==
  IF x = JSNull THEN 0 ELSE IF x \in {JSUndefined, JSHole} THEN JSNaN ELSE x

IsInf(x) == x \in {JSInfinity, 0 - JSInfinity}

\* a + b
JsAdd(x, y) ==
  LET a == ToNumber(x)
      b == ToNumber(y)
  IN  IF IsNum(a) /\ IsNum(b) THEN a + b
      ELSE IF IsInf(a) /\ IsNum(b) THEN a
      ELSE IF IsNum(a) /\ IsInf(b) THEN b
      ELSE IF IsInf(a) /\ a = b THEN a
      ELSE JSNaN

\* -a
JsNeg(x) ==
  LET a == ToNumber(x) IN IF IsNum(a) \/ IsInf(a) THEN 0 - a ELSE JSNaN

\* a === b on numbers
JsEq(a, b) == a # JSNaN /\ b # JSNaN /\ a = b

\* a variant of JsGt: a >= b in place of a > b
JsGe(x, y) ==
  LET a == ToNumber(x)
      b == ToNumber(y)
  IN  a # JSNaN /\ b # JSNaN /\ a >= b

\* a > b (false when either is NaN or undefined)
JsGt(x, y) ==
  LET a == ToNumber(x)
      b == ToNumber(y)
  IN  a # JSNaN /\ b # JSNaN /\ a > b

\* JSON.parse(JSON.stringify(x)) of a number or an array entry
JsonNumber(x) == IF IsNum(x) THEN x ELSE JSNull

\* JSON.parse(JSON.stringify(arr)) of an array of numbers
JsonArray(arr) == [k \in 1..Len(arr) |-> JsonNumber(arr[k])]

Max2(a, b) == IF a >= b THEN a ELSE b

\* arr[i]: undefined beyond the end and in an empty slot
At(arr, i) ==
  IF i \in 1..Len(arr) /\ arr[i] # JSHole THEN arr[i] ELSE JSUndefined

\* arr[i] = v: the array grows, leaving empty slots, when i is beyond its end
ArraySet(arr, i, v) ==
  [k \in 1..Max2(Len(arr), i) |->
     IF k = i THEN v ELSE IF k <= Len(arr) THEN arr[k] ELSE JSHole]

\* [...arr]: empty slots become undefined
Spread(arr) == [k \in 1..Len(arr) |-> At(arr, k)]

\* Array(n).fill(v)
ArrayFill(n, v) == [k \in 1..n |-> v]

\* arr.reduce((sum, x) => sum + x, 0): reduce skips empty slots
RECURSIVE ReduceSumTo(_, _)
ReduceSumTo(arr, k) ==
  IF k = 0 THEN 0
  ELSE IF arr[k] = JSHole THEN ReduceSumTo(arr, k - 1)
  ELSE JsAdd(ReduceSumTo(arr, k - 1), arr[k])

ReduceSum(arr) == ReduceSumTo(arr, Len(arr))

\* Math.round(num / den) for integers num and den # 0: the nearest whole
\* number, a half rounded towards +Infinity
RoundDiv(num, den) ==
  IF den > 0 THEN (2 * num + den) \div (2 * den)
  ELSE (0 - 2 * num - den) \div (0 - 2 * den)

-----------------------------------------------------------------------------
(* Strings *)

IsSpace(c) == c = " "

\* name.trim()
RECURSIVE TrimLeft(_)
TrimLeft(s) ==
  IF s # << >> /\ IsSpace(Head(s)) THEN TrimLeft(Tail(s)) ELSE s

RECURSIVE TrimRight(_)
TrimRight(s) ==
  IF s # << >> /\ IsSpace(s[Len(s)]) THEN TrimRight(SubSeq(s, 1, Len(s) - 1))
  ELSE s

Trim(s) == TrimRight(TrimLeft(s))

ToUpperCase(c) ==
  CASE c = "a" -> "A" [] c = "b" -> "B" [] c = "c" -> "C" [] c = "d" -> "D"
    [] c = "e" -> "E" [] c = "f" -> "F" [] c = "g" -> "G" [] OTHER -> c

\* name.charAt(0).toUpperCase(): the empty string for an empty name
Initial(name) == IF name = << >> THEN << >> ELSE <<ToUpperCase(name[1])>>

\* playerNames.some(name => name.trim() !== '')
SomeNameEntered(names) == \E i \in 1..Len(names) : Trim(names[i]) # << >>

\* playerNames.some((n) => n.trim() === '')
SomeNameBlank(names) == \E i \in 1..Len(names) : Trim(names[i]) = << >>

-----------------------------------------------------------------------------
(* The settlement calculations *)

\* a variant of the share below that drops the fraction (Math.floor)
RoundShareDown(points, totalPoints, potSize) ==
  IF ~IsNum(totalPoints) THEN JSNaN
  ELSE IF totalPoints = 0
    THEN (IF potSize > 0 THEN JSInfinity
          ELSE IF potSize < 0 THEN 0 - JSInfinity
          ELSE JSNaN)
  ELSE (points * potSize) \div totalPoints

\* Math.round((points / totalPoints) * potSize), for points > 0
RoundShare(points, totalPoints, potSize) ==
  IF ~IsNum(totalPoints) THEN JSNaN
  ELSE IF totalPoints = 0
    THEN (IF potSize > 0 THEN JSInfinity
          ELSE IF potSize < 0 THEN 0 - JSInfinity
          ELSE JSNaN)
  ELSE RoundDiv(points * potSize, totalPoints)

RECURSIVE RowiePayoutsTo(_, _, _, _, _)
RowiePayoutsTo(rowiePoints, payouts, totalPoints, potSize, k) ==
  IF k = 0 THEN payouts
  ELSE LET before == RowiePayoutsTo(rowiePoints, payouts, totalPoints, potSize, k - 1)
       IN  IF JsGt(rowiePoints[k], 0)
           THEN ArraySet(before, k, RoundShare(rowiePoints[k], totalPoints, potSize))
           ELSE before

\* calculateRowiePayouts, with the numPlayers and rowieSettings.potAmount it
\* reads from the component state as parameters
calculateRowiePayouts(rowiePoints, n, potAmount) ==
  LET payouts == ArrayFill(n, 0)
      totalPoints == ReduceSum(rowiePoints)
      potSize == n * potAmount
  IN  RowiePayoutsTo(rowiePoints, payouts, totalPoints, potSize, Len(rowiePoints))

\* the keys of groupedPlayers: the distinct chip amounts
ChipAmounts(finalChips) == {finalChips[i] : i \in 1..Len(finalChips)}

Orderings(S) ==
  {f \in [1..Cardinality(S) -> S] :
     \A i, j \in 1..Cardinality(S) : i # j => f[i] # f[j]}

\* Object.keys(groupedPlayers).map(Number).sort((a, b) => b - a): descending.
\* With NaN among the amounts the comparator is inconsistent and the order
\* is whatever the engine's sort leaves: any order.
SortedChipAmounts(finalChips) ==
  LET S == ChipAmounts(finalChips)
  IN  IF JSNaN \in S THEN Orderings(S)
      ELSE {f \in Orderings(S) :
              \A i, j \in 1..Cardinality(S) : i < j => f[i] > f[j]}

\* a variant of GroupSize: every group counted as one player
GroupSizeOne(finalChips, amount) == 1

\* groupedPlayers[amount].length
GroupSize(finalChips, amount) ==
  Cardinality({i \in 1..Len(finalChips) : finalChips[i] = amount})

\* a variant of GroupSizesSum: no group counted
GroupSizesNone(finalChips, sorted, from, to) == 0

RECURSIVE GroupSizesSum(_, _, _, _)
\* sortedChipAmounts.slice(from, to).reduce((sum, a) => sum + groupedPlayers[a].length, 0)
GroupSizesSum(finalChips, sorted, from, to) ==
  IF from > to THEN 0
  ELSE GroupSize(finalChips, sorted[from])
         + GroupSizesSum(finalChips, sorted, from + 1, to)

\* a variant of RankOf: every amount taken to be the highest
RankFirst(sorted, amount) == 1

\* the rank (1 = highest) of an amount in the sorted amounts
RankOf(sorted, amount) == CHOOSE r \in 1..Len(sorted) : sorted[r] = amount

\* calculateBubblePayouts for one outcome of the sort, numPlayers as parameter
BubblePayoutsSorted(finalChips, n, sorted) ==
  [k \in 1..Max2(n, Len(finalChips)) |->
     IF k > Len(finalChips) THEN 0
     ELSE LET rank == RankOf(sorted, finalChips[k])
              playersAbove == GroupSizesSum(finalChips, sorted, 1, rank - 1)
              playersBelow == GroupSizesSum(finalChips, sorted, rank + 1, Len(sorted))
          IN  (playersBelow * BUBBLE_AMOUNT) - (playersAbove * BUBBLE_AMOUNT)]

\* calculateBubblePayouts on chip counts that are all numbers
calculateBubblePayouts(finalChips, n) ==
  BubblePayoutsSorted(finalChips, n,
                      CHOOSE sorted \in SortedChipAmounts(finalChips) : TRUE)

\* a variant of the calculation below without the two halvings
MercyAmountTwentieth(chip) ==
  IF IsNum(ToNumber(chip)) THEN RoundDiv(ToNumber(chip) * 5, 100)
  ELSE JSNaN

\* a variant of the calculation below that drops the fraction (Math.trunc)
MercyAmountTruncated(chip) ==
  IF IsNum(ToNumber(chip))
  THEN IF ToNumber(chip) >= 0 THEN (ToNumber(chip) * 5) \div (100 * 2 * 2)
       ELSE 0 - ((0 - ToNumber(chip) * 5) \div (100 * 2 * 2))
  ELSE JSNaN

\* Math.round((chip * 0.05) / 2 / 2)
MercyAmount(chip) ==
  IF IsNum(ToNumber(chip)) THEN RoundDiv(ToNumber(chip) * 5, 100 * 2 * 2)
  ELSE JSNaN

\* chips.map(chip => Math.round((chip * 0.05) / 2 / 2))
MercyChips(c) == [k \in 1..Len(c) |-> MercyAmount(c[k])]

\* the longest playerResults of the hands
RECURSIVE MaxLen(_)
MaxLen(hs) == IF hs = << >> THEN 0 ELSE Max2(Len(Head(hs)), MaxLen(Tail(hs)))

\* rowieTotals[k] after rowieResults.forEach(result =>
\*   result.playerResults.forEach((amount, idx) => rowieTotals[idx] += amount))
RECURSIVE RowieTotalAt(_, _, _)
RowieTotalAt(rowieResults, n, k) ==
  IF rowieResults = << >> THEN (IF k <= n THEN 0 ELSE JSUndefined)
  ELSE LET m == Len(rowieResults)
           before == RowieTotalAt(SubSeq(rowieResults, 1, m - 1), n, k)
           result == rowieResults[m]
       IN  IF k <= Len(result) THEN JsAdd(before, result[k]) ELSE before

\* rowieTotals, starting from Array(numPlayers).fill(0)
RowieTotals(rowieResults, n) ==
  [k \in 1..Max2(n, MaxLen(rowieResults)) |-> RowieTotalAt(rowieResults, n, k)]

\* Math.max(...arr), arr not empty
MathMax(arr) ==
  IF \E k \in 1..Len(arr) : ~IsNum(ToNumber(arr[k])) THEN JSNaN
  ELSE CHOOSE m \in {ToNumber(arr[k]) : k \in 1..Len(arr)} :
         \A k \in 1..Len(arr) : m >= ToNumber(arr[k])

\* playerNames[idx] of a player that has a name box
NameAt(names, k) == IF k <= Len(names) THEN names[k] ELSE <<"undefined">>

\* rowieTotals.map((points, idx) => ({points, idx}))
\*   .filter(({points}) => points === maxPoints)
\*   .map(({idx}) => playerNames[idx].charAt(0).toUpperCase())
RECURSIVE WinnersTo(_, _, _, _)
WinnersTo(rowieTotals, maxPoints, names, k) ==
  IF k = 0 THEN << >>
  ELSE LET before == WinnersTo(rowieTotals, maxPoints, names, k - 1)
       IN  IF JsEq(rowieTotals[k], maxPoints)
           THEN Append(before, Initial(NameAt(names, k)))
           ELSE before

RowieWinners(rowieTotals, names) ==
  WinnersTo(rowieTotals, MathMax(rowieTotals), names, Len(rowieTotals))

-----------------------------------------------------------------------------
(* The state *)

VARIABLES
  step,              \* 1 count, 2 names, 3 play, 4 Rowie settings, 5 history
  numPlayers,
  playerNames,
  chips,
  rowie,
  rowieSettings,
  history,
  selectedHistory,   \* << >> for null, <<round>> for a round
  hands,             \* the playerResults of each hand
  currentHandIndex,
  handResults,
  showSummary,
  mercyApplied,
  preMercyChips,
  completedRowies,
  storedGame,        \* AsyncStorage[STORAGE_KEY]: << >> when absent
  storedHistory,     \* AsyncStorage[HISTORY_KEY]: << >> when absent
  pendingWrites,     \* history writes handed to AsyncStorage, not yet done
  alert,             \* the message of the Alert on screen, "" for none
  reduced,           \* history variable: the chip totals held in chips have
                     \* been through the mercy calculation
  handsPlayed,       \* history variable: hands accepted so far in this run
  calc               \* the calculation last made on its own (SpecCalc)

vars ==
  <<step, numPlayers, playerNames, chips, rowie, rowieSettings, history,
    selectedHistory, hands, currentHandIndex, handResults, showSummary,
    mercyApplied, preMercyChips, completedRowies, storedGame, storedHistory,
    pendingWrites, alert, reduced, handsPlayed, calc>>

NoAlert == ""

NamesAlert == "Please enter all player names."

RowieOpenAlert == "Please complete the current Rowie before starting a new one."

SettingsAlert == "Please fill in all Rowie settings."

SumAlert == "Hand results must sum to zero."

FinishAlert == "Please complete the current Rowie before ending the game."

NoCalc ==
  [op |-> "none", points |-> << >>, n |-> 0, potAmount |-> 0, once |-> << >>,
   out |-> << >>]

\* the rowieSettings every reset writes
InitialRowieSettings ==
  [startHand |-> 0, numHands |-> 0, potAmount |-> DEFAULT_POT,
   currentHand |-> 0, isComplete |-> FALSE]

\* the useState initial values, nothing in storage
Init ==
  /\ step = 1
  /\ numPlayers = 2
  /\ playerNames = ArrayFill(2, << >>)
  /\ chips = ArrayFill(2, 0)
  /\ rowie = ArrayFill(2, 0)
  /\ rowieSettings = InitialRowieSettings
  /\ history = << >>
  /\ selectedHistory = << >>
  /\ hands = << >>
  /\ currentHandIndex = 0 - 1
  /\ handResults = ArrayFill(2, 0)
  /\ showSummary = FALSE
  /\ mercyApplied = FALSE
  /\ preMercyChips = << >>
  /\ completedRowies = << >>
  /\ storedGame = << >>
  /\ storedHistory = << >>
  /\ pendingWrites = << >>
  /\ alert = NoAlert
  /\ reduced = FALSE
  /\ handsPlayed = 0
  /\ calc = NoCalc

\* JSON.parse(JSON.stringify(gameData))
JsonGame(game) ==
  [game EXCEPT !.chips = JsonArray(game.chips),
               !.rowie = JsonArray(game.rowie),
               !.hands = [h \in 1..Len(game.hands) |-> JsonArray(game.hands[h])]]

\* the gameData object of saveData, taken from the state after a step
SavedGameNext ==
  [step |-> step', numPlayers |-> numPlayers', playerNames |-> playerNames',
   chips |-> chips', rowie |-> rowie', rowieSettings |-> rowieSettings',
   hands |-> hands', currentHandIndex |-> currentHandIndex',
   reduced |-> reduced']

\* the auto-save effect, run after a step that set one of its dependencies:
\* the game is written when some name is entered; otherwise the key is left
\* as the handler left it
AutoSave(left) ==
  storedGame' = IF SomeNameEntered(playerNames')
                THEN <<JsonGame(SavedGameNext)>> ELSE left

(* What is on screen: an Alert is modal, nothing else reacts under it *)

CountShown == alert = NoAlert /\ step = 1

HistoryListShown == alert = NoAlert /\ step = 1 /\ Len(history) > 0

NamesShown == alert = NoAlert /\ step = 2

SummaryShown == alert = NoAlert /\ step \in {3, 4} /\ showSummary

\* a variant of the screen below that is also shown during play
RowieSettingsShownInPlay == alert = NoAlert /\ step \in {3, 4} /\ ~showSummary

RowieSettingsShown == alert = NoAlert /\ step = 4 /\ ~showSummary

PlayShown == alert = NoAlert /\ step = 3 /\ ~showSummary

HistoryViewShown == alert = NoAlert /\ step = 5

-----------------------------------------------------------------------------
(* Rendering the summary *)

CrashAlert == "TypeError: Cannot read property 'length' of undefined"

\* calculateBubblePayouts throws on a chip count that came back from JSON as
\* null: its group is filed under "null", which Number() turns into NaN, and
\* groupedPlayers[NaN] is undefined
BubbleThrows(finalChips) == \E k \in 1..Len(finalChips) : finalChips[k] = JSNull

\* renderSummary throws: the pre-mercy rows call calculateBubblePayouts on
\* preMercyChips, the post-mercy rows call it on chips
SummaryThrows(st, summary, mercy, pre, c) ==
  /\ st \in {3, 4}
  /\ summary
  /\ BubbleThrows(pre) \/ (mercy /\ BubbleThrows(c))

-----------------------------------------------------------------------------
(* Setting up *)

handleNumPlayers(n) ==
  /\ CountShown
  /\ numPlayers' = n
  /\ playerNames' = ArrayFill(n, << >>)
  /\ chips' = ArrayFill(n, 0)
  /\ rowie' = ArrayFill(n, 0)
  /\ handResults' = ArrayFill(n, 0)
  /\ step' = 2
  /\ reduced' = FALSE
  /\ UNCHANGED <<rowieSettings, history, selectedHistory, hands,
                 currentHandIndex, showSummary, mercyApplied, preMercyChips,
                 completedRowies, storedHistory, pendingWrites, alert,
                 handsPlayed, calc>>
  /\ AutoSave(storedGame)

\* handlePlayerName(idx, name): the new playerNames
PlayerNameTyped(names, idx, name) == [names EXCEPT ![idx] = name]

\* handlePlayerName for each of the first boxes in turn
RECURSIVE NamesTyped(_, _, _)
NamesTyped(names, row, k) ==
  IF k = 0 THEN names
  ELSE PlayerNameTyped(NamesTyped(names, row, k - 1), k, row[k])

\* names are typed, box by box
handlePlayerName(row) ==
  /\ NamesShown
  /\ playerNames' = NamesTyped(playerNames, row, Len(row))
  /\ UNCHANGED <<step, numPlayers, chips, rowie, rowieSettings, history,
                 selectedHistory, hands, currentHandIndex, handResults,
                 showSummary, mercyApplied, preMercyChips, completedRowies,
                 storedHistory, pendingWrites, alert, reduced, handsPlayed,
                 calc>>
  /\ AutoSave(storedGame)

handleNamesContinue ==
  /\ NamesShown
  /\ IF SomeNameBlank(playerNames)
     THEN /\ alert' = NamesAlert
          /\ UNCHANGED <<step, numPlayers, playerNames, chips, rowie,
                         rowieSettings, history, selectedHistory, hands,
                         currentHandIndex, handResults, showSummary,
                         mercyApplied, preMercyChips, completedRowies,
                         storedGame, storedHistory, pendingWrites, reduced,
                         handsPlayed, calc>>
     ELSE /\ chips' = ArrayFill(numPlayers, 0)
          /\ rowie' = ArrayFill(numPlayers, 0)
          /\ rowieSettings' = InitialRowieSettings
          /\ hands' = << >>
          /\ currentHandIndex' = 0 - 1
          /\ completedRowies' = << >>
          /\ handResults' = ArrayFill(numPlayers, 0)
          /\ showSummary' = FALSE
          /\ mercyApplied' = FALSE
          /\ step' = 3
          /\ reduced' = FALSE
          /\ UNCHANGED <<numPlayers, playerNames, history, selectedHistory,
                         preMercyChips, storedHistory, pendingWrites, alert,
                         handsPlayed, calc>>
          /\ AutoSave(storedGame)

-----------------------------------------------------------------------------
(* Rowies *)

\* the two text boxes of renderRowieSettings
handleRowieSettings(field, value) ==
  /\ RowieSettingsShown
  /\ rowieSettings' = [rowieSettings EXCEPT ![field] = value]
  /\ UNCHANGED <<step, numPlayers, playerNames, chips, rowie, history,
                 selectedHistory, hands, currentHandIndex, handResults,
                 showSummary, mercyApplied, preMercyChips, completedRowies,
                 storedHistory, pendingWrites, alert, reduced, handsPlayed,
                 calc>>
  /\ AutoSave(storedGame)

\* a variant of the check below that lets every attempt through
RowieNeverUnderWay(settings) == settings.currentHand > settings.currentHand

\* the check that opens handleNewRowie: rowieSettings.currentHand > 0
RowieUnderWay(settings) == settings.currentHand > 0

handleNewRowie ==
  /\ PlayShown
  /\ UNCHANGED <<numPlayers, playerNames, chips, rowie, rowieSettings,
                 history, selectedHistory, hands, currentHandIndex,
                 handResults, showSummary, mercyApplied, preMercyChips,
                 completedRowies, storedHistory, pendingWrites, reduced,
                 handsPlayed, calc>>
  /\ IF RowieUnderWay(rowieSettings)
     THEN /\ alert' = RowieOpenAlert
          /\ UNCHANGED <<step, storedGame>>
     ELSE /\ step' = 4
          /\ UNCHANGED alert
          /\ AutoSave(storedGame)

\* a variant of the check below that looks at the number of hands only
SettingsMissingHands(settings) == settings.numHands <= 0

\* the check that opens handleRowieSettingsContinue
SettingsMissing(settings) == settings.numHands <= 0 \/ settings.potAmount <= 0

\* the settings check, then 'Start Rowie' pressed in the confirmation
handleRowieSettingsContinue ==
  /\ RowieSettingsShown
  /\ UNCHANGED <<numPlayers, playerNames, chips, rowie, history,
                 selectedHistory, hands, currentHandIndex, handResults,
                 showSummary, mercyApplied, preMercyChips, completedRowies,
                 storedHistory, pendingWrites, reduced, handsPlayed, calc>>
  /\ IF SettingsMissing(rowieSettings)
     THEN /\ alert' = SettingsAlert
          /\ UNCHANGED <<step, rowieSettings, storedGame>>
     ELSE /\ rowieSettings' =
               [rowieSettings EXCEPT !.startHand = Len(hands),
                                     !.currentHand = rowieSettings.numHands,
                                     !.isComplete = FALSE]
          /\ step' = 3
          /\ UNCHANGED alert
          /\ AutoSave(storedGame)

-----------------------------------------------------------------------------
(* Hands *)

\* handleHandResult(idx, value) for a number typed: the new handResults
HandResultTyped(results, idx, value) == ArraySet(Spread(results), idx, value)

\* handleHandResult for each of the first boxes in turn
RECURSIVE RowTyped(_, _, _)
RowTyped(results, row, k) ==
  IF k = 0 THEN results
  ELSE HandResultTyped(RowTyped(results, row, k - 1), k, row[k])

\* a row of amounts is typed, box by box
handleHandResult(row) ==
  /\ PlayShown
  /\ Len(row) = Len(playerNames)
  /\ handResults' = RowTyped(handResults, row, Len(row))
  /\ UNCHANGED <<step, numPlayers, playerNames, chips, rowie, rowieSettings,
                 history, selectedHistory, hands, currentHandIndex,
                 showSummary, mercyApplied, preMercyChips, completedRowies,
                 storedGame, storedHistory, pendingWrites, alert, reduced,
                 handsPlayed, calc>>

\* the '-' button of a player's row
toggleNegative(idx) ==
  /\ PlayShown
  /\ idx <= Len(playerNames)
  /\ handResults' = ArraySet(Spread(handResults), idx, JsNeg(At(handResults, idx)))
  /\ UNCHANGED <<step, numPlayers, playerNames, chips, rowie, rowieSettings,
                 history, selectedHistory, hands, currentHandIndex,
                 showSummary, mercyApplied, preMercyChips, completedRowies,
                 storedGame, storedHistory, pendingWrites, alert, reduced,
                 handsPlayed, calc>>

\* a variant of the check below: total <= 0 in place of total === 0
SumIsNotPositive(results) ==
  LET total == ReduceSum(results) IN IsNum(total) /\ total <= 0

\* the check that opens handleSubmitHand: total !== 0
SumIsZero(results) == JsEq(ReduceSum(results), 0)

\* arr.map((x, idx) => x + handResults[idx])
AddResults(arr, results) ==
  [k \in 1..Len(arr) |-> JsAdd(arr[k], At(results, k))]

\* [...hands.slice(rowieSettings.startHand), newHand]
RowieResults(hs, startHand, newHand) ==
  Append(SubSeq(hs, startHand + 1, Len(hs)), newHand)

\* a variant of the record below whose startHand counts hands from 0
NewCompletedRowieFromZero(hs, newHand, settings, n, names, completed) ==
  LET rowieTotals == RowieTotals(RowieResults(hs, settings.startHand, newHand), n)
  IN  [rowieNumber |-> Len(completed) + 1,
       startHand |-> settings.startHand,
       endHand |-> Len(hs) + 1,
       value |-> settings.potAmount,
       winners |-> RowieWinners(rowieTotals, names)]

\* the CompletedRowie made when the last hand of a Rowie is submitted
NewCompletedRowie(hs, newHand, settings, n, names, completed) ==
  LET rowieTotals == RowieTotals(RowieResults(hs, settings.startHand, newHand), n)
  IN  [rowieNumber |-> Len(completed) + 1,
       startHand |-> settings.startHand + 1,
       endHand |-> Len(hs) + 1,
       value |-> settings.potAmount,
       winners |-> RowieWinners(rowieTotals, names)]

\* a variant of the check below that holds one hand early
LastRowieHandEarly(settings) == settings.currentHand = 2

\* the check for the last hand of a Rowie: rowieSettings.currentHand === 1
LastRowieHand(settings) == settings.currentHand = 1

handleSubmitHand ==
  /\ PlayShown
  /\ UNCHANGED <<step, numPlayers, playerNames, history, selectedHistory,
                 showSummary, mercyApplied, preMercyChips, storedHistory,
                 pendingWrites, reduced, calc>>
  /\ IF ~SumIsZero(handResults)
     THEN /\ alert' = SumAlert
          /\ UNCHANGED <<hands, currentHandIndex, chips, rowie, rowieSettings,
                         completedRowies, handResults, storedGame,
                         handsPlayed>>
     ELSE LET newHand == Spread(handResults)
              newHands == Append(hands, newHand)
          IN  /\ handsPlayed' = handsPlayed + 1
              /\ hands' = newHands
              /\ currentHandIndex' = Len(newHands) - 1
              /\ chips' = AddResults(chips, handResults)
              /\ IF rowieSettings.currentHand > 0
                 THEN /\ rowie' = AddResults(rowie, handResults)
                      /\ IF LastRowieHand(rowieSettings)
                         THEN /\ completedRowies' =
                                   Append(completedRowies,
                                          NewCompletedRowie(hands, newHand,
                                                            rowieSettings,
                                                            numPlayers,
                                                            playerNames,
                                                            completedRowies))
                              /\ rowieSettings' =
                                   [rowieSettings EXCEPT !.currentHand = 0,
                                                         !.isComplete = TRUE]
                         ELSE /\ rowieSettings' =
                                   [rowieSettings EXCEPT
                                      !.currentHand = rowieSettings.currentHand - 1]
                              /\ UNCHANGED completedRowies
                 ELSE /\ rowieSettings' =
                           IF rowieSettings.isComplete
                           THEN [rowieSettings EXCEPT !.isComplete = FALSE]
                           ELSE rowieSettings
                      /\ UNCHANGED <<rowie, completedRowies>>
              /\ handResults' = ArrayFill(numPlayers, 0)
              /\ UNCHANGED alert
              /\ AutoSave(storedGame)

\* the hand navigation is rendered when hands.length > 0
handlePreviousHand ==
  /\ PlayShown
  /\ Len(hands) > 0
  /\ currentHandIndex > 0
  /\ currentHandIndex - 1 < Len(hands)
  /\ currentHandIndex' = currentHandIndex - 1
  /\ handResults' = hands[currentHandIndex]
  /\ UNCHANGED <<step, numPlayers, playerNames, chips, rowie, rowieSettings,
                 history, selectedHistory, hands, showSummary, mercyApplied,
                 preMercyChips, completedRowies, storedHistory, pendingWrites,
                 alert, reduced, handsPlayed, calc>>
  /\ AutoSave(storedGame)

handleNextHand ==
  /\ PlayShown
  /\ Len(hands) > 0
  /\ currentHandIndex < Len(hands) - 1
  /\ currentHandIndex' = currentHandIndex + 1
  /\ handResults' = hands[currentHandIndex + 2]
  /\ UNCHANGED <<step, numPlayers, playerNames, chips, rowie, rowieSettings,
                 history, selectedHistory, hands, showSummary, mercyApplied,
                 preMercyChips, completedRowies, storedHistory, pendingWrites,
                 alert, reduced, handsPlayed, calc>>
  /\ AutoSave(storedGame)

\* the 'Current Hand' button is rendered when currentHandIndex < hands.length - 1
handleCurrentHand ==
  /\ PlayShown
  /\ Len(hands) > 0
  /\ currentHandIndex < Len(hands) - 1
  /\ currentHandIndex' = Len(hands) - 1
  /\ handResults' = hands[Len(hands)]
  /\ UNCHANGED <<step, numPlayers, playerNames, chips, rowie, rowieSettings,
                 history, selectedHistory, hands, showSummary, mercyApplied,
                 preMercyChips, completedRowies, storedHistory, pendingWrites,
                 alert, reduced, handsPlayed, calc>>
  /\ AutoSave(storedGame)

-----------------------------------------------------------------------------
(* The summary *)

\* a variant of the check below that holds only with more than one hand left
RowieUnfinishedByTwo(settings) == settings.currentHand > 1

\* the check that opens handleFinish: rowieSettings.currentHand > 0
RowieUnfinished(settings) == settings.currentHand > 0

handleFinish ==
  /\ PlayShown
  /\ IF RowieUnfinished(rowieSettings)
     THEN /\ alert' = FinishAlert
          /\ UNCHANGED <<preMercyChips, showSummary>>
     ELSE /\ preMercyChips' = chips
          /\ showSummary' = TRUE
          /\ alert' = IF SummaryThrows(step, TRUE, mercyApplied, chips, chips)
                      THEN CrashAlert ELSE NoAlert
  /\ UNCHANGED <<step, numPlayers, playerNames, chips, rowie, rowieSettings,
                 history, selectedHistory, hands, currentHandIndex,
                 handResults, mercyApplied, completedRowies, storedGame,
                 storedHistory, pendingWrites, reduced, handsPlayed, calc>>

\* the 'Calculate Mercy' button is rendered when !mercyApplied
handleMercyCalculation ==
  /\ SummaryShown
  /\ ~mercyApplied
  /\ chips' = MercyChips(chips)
  /\ mercyApplied' = TRUE
  /\ reduced' = TRUE
  /\ UNCHANGED <<step, numPlayers, playerNames, rowie, rowieSettings, history,
                 selectedHistory, hands, currentHandIndex, handResults,
                 showSummary, preMercyChips, completedRowies, storedHistory,
                 pendingWrites, alert, handsPlayed, calc>>
  /\ AutoSave(storedGame)

-----------------------------------------------------------------------------
(* History *)

\* the GameRound of saveToHistory, for one outcome of the sort of the chip
\* amounts
GameRoundOf(sorted) ==
  [playerNames |-> playerNames,
   finalChips |-> chips,
   rowiePoints |-> rowie,
   rowiePayouts |-> calculateRowiePayouts(rowie, numPlayers, rowieSettings.potAmount),
   bubblePayouts |-> BubblePayoutsSorted(chips, numPlayers, sorted),
   rowieSettings |-> rowieSettings,
   hands |-> hands,
   completedRowies |-> completedRowies,
   reduced |-> reduced]

\* JSON.parse(JSON.stringify(round))
JsonRound(round) ==
  [round EXCEPT !.finalChips = JsonArray(round.finalChips),
                !.rowiePoints = JsonArray(round.rowiePoints),
                !.rowiePayouts = JsonArray(round.rowiePayouts),
                !.bubblePayouts = JsonArray(round.bubblePayouts),
                !.hands = [h \in 1..Len(round.hands) |-> JsonArray(round.hands[h])]]

JsonHistory(h) == [i \in 1..Len(h) |-> JsonRound(h[i])]

\* handleSaveAndExit up to the await of the history write: saveToHistory puts
\* the round in front of the history and hands the write to AsyncStorage
handleSaveAndExit ==
  /\ SummaryShown
  /\ mercyApplied
  /\ ~BubbleThrows(chips)
  /\ \E sorted \in SortedChipAmounts(chips) :
       LET newHistory == <<GameRoundOf(sorted)>> \o history
       IN  /\ history' = newHistory
           /\ pendingWrites' =
                Append(pendingWrites, [newHistory |-> newHistory, resume |-> TRUE])
  /\ UNCHANGED <<step, numPlayers, playerNames, chips, rowie, rowieSettings,
                 selectedHistory, hands, currentHandIndex, handResults,
                 showSummary, mercyApplied, preMercyChips, completedRowies,
                 storedGame, storedHistory, alert, reduced, handsPlayed, calc>>

\* 'Delete' pressed in the confirmation of deleteHistoryRound.  Nothing waits
\* for its write, which is taken to be done at once unless it queues behind
\* the write of a save
deleteHistoryRound(index) ==
  /\ HistoryListShown
  /\ LET newHistory == SubSeq(history, 1, index - 1)
                         \o SubSeq(history, index + 1, Len(history))
     IN  /\ history' = newHistory
         /\ IF pendingWrites = << >>
            THEN /\ storedHistory' = JsonHistory(newHistory)
                 /\ UNCHANGED pendingWrites
            ELSE /\ pendingWrites' =
                      Append(pendingWrites,
                             [newHistory |-> newHistory, resume |-> FALSE])
                 /\ UNCHANGED storedHistory
  /\ UNCHANGED <<step, numPlayers, playerNames, chips, rowie, rowieSettings,
                 selectedHistory, hands, currentHandIndex, handResults,
                 showSummary, mercyApplied, preMercyChips, completedRowies,
                 storedGame, alert, reduced, handsPlayed, calc>>

\* the oldest history write is done; handleSaveAndExit resumes after its await
HistoryWriteDone ==
  /\ pendingWrites # << >>
  /\ storedHistory' = JsonHistory(Head(pendingWrites).newHistory)
  /\ pendingWrites' = Tail(pendingWrites)
  /\ IF Head(pendingWrites).resume
     THEN /\ showSummary' = FALSE
          /\ mercyApplied' = FALSE
          /\ step' = 1
          /\ numPlayers' = 2
          /\ playerNames' = ArrayFill(2, << >>)
          /\ chips' = ArrayFill(2, 0)
          /\ rowie' = ArrayFill(2, 0)
          /\ rowieSettings' = InitialRowieSettings
          /\ hands' = << >>
          /\ currentHandIndex' = 0 - 1
          /\ storedGame' = << >>
          /\ reduced' = FALSE
          /\ UNCHANGED alert
     ELSE UNCHANGED <<showSummary, mercyApplied, step, numPlayers, playerNames,
                      chips, rowie, rowieSettings, hands, currentHandIndex,
                      storedGame, reduced, alert>>
  /\ UNCHANGED <<history, selectedHistory, handResults, preMercyChips,
                 completedRowies, handsPlayed, calc>>

\* the oldest history write fails: setItem rejects, and so does the handler
\* that awaited it
HistoryWriteFails ==
  /\ pendingWrites # << >>
  /\ pendingWrites' = Tail(pendingWrites)
  /\ UNCHANGED <<step, numPlayers, playerNames, chips, rowie, rowieSettings,
                 history, selectedHistory, hands, currentHandIndex,
                 handResults, showSummary, mercyApplied, preMercyChips,
                 completedRowies, storedGame, storedHistory, alert, reduced,
                 handsPlayed, calc>>

\* a round of the history list is pressed
loadHistoryRound(index) ==
  /\ HistoryListShown
  /\ LET round == history[index]
     IN  /\ selectedHistory' = <<round>>
         /\ playerNames' = round.playerNames
         /\ chips' = round.finalChips
         /\ rowie' = round.rowiePoints
         /\ rowieSettings' = round.rowieSettings
         /\ hands' = round.hands
         /\ reduced' = round.reduced
  /\ step' = 5
  /\ UNCHANGED <<numPlayers, history, currentHandIndex, handResults,
                 showSummary, mercyApplied, preMercyChips, completedRowies,
                 storedHistory, pendingWrites, alert, handsPlayed, calc>>
  /\ AutoSave(storedGame)

exitHistoryView ==
  /\ HistoryViewShown
  /\ selectedHistory' = << >>
  /\ step' = 1
  /\ numPlayers' = 2
  /\ playerNames' = ArrayFill(2, << >>)
  /\ chips' = ArrayFill(2, 0)
  /\ rowie' = ArrayFill(2, 0)
  /\ rowieSettings' = InitialRowieSettings
  /\ hands' = << >>
  /\ currentHandIndex' = 0 - 1
  /\ reduced' = FALSE
  /\ UNCHANGED <<history, handResults, showSummary, mercyApplied,
                 preMercyChips, completedRowies, storedHistory, pendingWrites,
                 alert, handsPlayed, calc>>
  /\ AutoSave(storedGame)

\* 'Return to Current Game', rendered in the history list and in the history
\* view when some name is entered
handleReturnToGame ==
  /\ HistoryListShown \/ HistoryViewShown
  /\ SomeNameEntered(playerNames)
  /\ selectedHistory' = << >>
  /\ step' = 3
  /\ handResults' = ArrayFill(numPlayers, 0)
  /\ alert' = IF SummaryThrows(3, showSummary, mercyApplied, preMercyChips, chips)
              THEN CrashAlert ELSE NoAlert
  /\ UNCHANGED <<numPlayers, playerNames, chips, rowie, rowieSettings,
                 history, hands, currentHandIndex, showSummary, mercyApplied,
                 preMercyChips, completedRowies, storedHistory, pendingWrites,
                 reduced, handsPlayed, calc>>
  /\ AutoSave(storedGame)

\* a variant of the button below that is not disabled by an empty history
handleHistoryMenuAlways ==
  /\ alert = NoAlert
  /\ step' = 5
  /\ selectedHistory' = << >>
  /\ UNCHANGED <<numPlayers, playerNames, chips, rowie, rowieSettings,
                 history, hands, currentHandIndex, handResults, showSummary,
                 mercyApplied, preMercyChips, completedRowies, storedHistory,
                 pendingWrites, alert, reduced, handsPlayed, calc>>
  /\ AutoSave(storedGame)

\* the 'History' button of renderBottomMenu
handleHistoryMenu ==
  /\ alert = NoAlert
  /\ Len(history) > 0
  /\ step' = 5
  /\ selectedHistory' = << >>
  /\ UNCHANGED <<numPlayers, playerNames, chips, rowie, rowieSettings,
                 history, hands, currentHandIndex, handResults, showSummary,
                 mercyApplied, preMercyChips, completedRowies, storedHistory,
                 pendingWrites, alert, reduced, handsPlayed, calc>>
  /\ AutoSave(storedGame)

\* a variant of the handler below without its setCompletedRowies([])
handleNewGameKeepingRowies ==
  /\ alert = NoAlert
  /\ step' = 1
  /\ numPlayers' = 2
  /\ playerNames' = ArrayFill(2, << >>)
  /\ chips' = ArrayFill(2, 0)
  /\ rowie' = ArrayFill(2, 0)
  /\ rowieSettings' = InitialRowieSettings
  /\ hands' = << >>
  /\ currentHandIndex' = 0 - 1
  /\ handResults' = ArrayFill(2, 0)
  /\ showSummary' = FALSE
  /\ mercyApplied' = FALSE
  /\ storedGame' = << >>
  /\ reduced' = FALSE
  /\ UNCHANGED <<history, selectedHistory, preMercyChips, completedRowies,
                 storedHistory, pendingWrites, alert, handsPlayed, calc>>

\* 'New Game' pressed in the confirmation of handleNewGame
handleNewGame ==
  /\ alert = NoAlert
  /\ step' = 1
  /\ numPlayers' = 2
  /\ playerNames' = ArrayFill(2, << >>)
  /\ chips' = ArrayFill(2, 0)
  /\ rowie' = ArrayFill(2, 0)
  /\ rowieSettings' = InitialRowieSettings
  /\ hands' = << >>
  /\ currentHandIndex' = 0 - 1
  /\ completedRowies' = << >>
  /\ handResults' = ArrayFill(2, 0)
  /\ showSummary' = FALSE
  /\ mercyApplied' = FALSE
  /\ storedGame' = << >>
  /\ reduced' = FALSE
  /\ UNCHANGED <<history, selectedHistory, preMercyChips, storedHistory,
                 pendingWrites, alert, handsPlayed, calc>>

\* the Alert is dismissed
DismissAlert ==
  /\ alert \notin {NoAlert, CrashAlert}
  /\ alert' = NoAlert
  /\ UNCHANGED <<step, numPlayers, playerNames, chips, rowie, rowieSettings,
                 history, selectedHistory, hands, currentHandIndex,
                 handResults, showSummary, mercyApplied, preMercyChips,
                 completedRowies, storedGame, storedHistory, pendingWrites,
                 reduced, handsPlayed, calc>>

-----------------------------------------------------------------------------
(* Starting the app *)

\* a variant of the check below that restores a game of any age
RestoredAlways(saved, fresh) == saved # << >>

\* loadData restores the saved game: if (savedGame) ... if (hoursDiff < 24)
Restored(saved, fresh) == saved # << >> /\ fresh

\* The app is closed and opened again: the state is the useState initial
\* values, then loadData.  landed: how many of the pending history writes
\* reached the store before the app was closed.  fresh: the game was saved
\* less than 24 hours ago.
Reload(landed, fresh) ==
  LET savedHistory == IF landed = 0 THEN storedHistory
                      ELSE JsonHistory(pendingWrites[landed].newHistory)
      restore == Restored(storedGame, fresh)
      data == storedGame[1]
  IN  /\ step' = IF restore THEN data.step ELSE 1
      /\ numPlayers' = IF restore THEN data.numPlayers ELSE 2
      /\ playerNames' = IF restore THEN data.playerNames ELSE ArrayFill(2, << >>)
      /\ chips' = IF restore THEN data.chips ELSE ArrayFill(2, 0)
      /\ rowie' = IF restore THEN data.rowie ELSE ArrayFill(2, 0)
      /\ rowieSettings' = IF restore THEN data.rowieSettings ELSE InitialRowieSettings
      /\ hands' = IF restore THEN data.hands ELSE << >>
      /\ currentHandIndex' = IF restore THEN data.currentHandIndex ELSE 0 - 1
      /\ reduced' = IF restore THEN data.reduced ELSE FALSE
      /\ storedGame' = IF restore THEN storedGame ELSE << >>
      /\ history' = savedHistory
      /\ storedHistory' = savedHistory
      /\ selectedHistory' = << >>
      /\ handResults' = ArrayFill(2, 0)
      /\ showSummary' = FALSE
      /\ mercyApplied' = FALSE
      /\ preMercyChips' = << >>
      /\ completedRowies' = << >>
      /\ pendingWrites' = << >>
      /\ alert' = NoAlert
      /\ UNCHANGED <<handsPlayed, calc>>

\* The app is opened and the saved game cannot be read: getItem rejects or
\* JSON.parse throws inside the try of loadData, whose catch only logs.  The
\* state is the useState initial values; the rest of the try, the reading of
\* the history, is not run, and nothing is removed from the store.
ReloadUnreadable(landed) ==
  LET savedHistory == IF landed = 0 THEN storedHistory
                      ELSE JsonHistory(pendingWrites[landed].newHistory)
  IN  /\ storedGame # << >>
      /\ step' = 1
      /\ numPlayers' = 2
      /\ playerNames' = ArrayFill(2, << >>)
      /\ chips' = ArrayFill(2, 0)
      /\ rowie' = ArrayFill(2, 0)
      /\ rowieSettings' = InitialRowieSettings
      /\ hands' = << >>
      /\ currentHandIndex' = 0 - 1
      /\ reduced' = FALSE
      /\ history' = << >>
      /\ storedHistory' = savedHistory
      /\ selectedHistory' = << >>
      /\ handResults' = ArrayFill(2, 0)
      /\ showSummary' = FALSE
      /\ mercyApplied' = FALSE
      /\ preMercyChips' = << >>
      /\ completedRowies' = << >>
      /\ pendingWrites' = << >>
      /\ alert' = NoAlert
      /\ UNCHANGED <<storedGame, handsPlayed, calc>>

-----------------------------------------------------------------------------
(* The app *)

Min2(a, b) == IF a <= b THEN a ELSE b

PlayerCounts == MIN_PLAYERS..Min2(MAX_PLAYERS, MaxN)

\* Each specification below runs the handlers on its own inputs: b.names and
\* b.rows are the rows typed, b.toggles the +/- buttons pressed, b.rowieHands
\* and b.pots the Rowie settings typed, b.hands the hands accepted in a run,
\* b.history the records kept, b.pending the history writes under way.

SetUp(b) ==
  \/ \E n \in PlayerCounts : handleNumPlayers(n)
  \/ \E row \in b.names :
       /\ row = BlankFirst \/ Len(row) = Len(playerNames)
       /\ handlePlayerName(row)
  \/ handleNamesContinue

Rowies(b) ==
  \/ \E value \in b.rowieHands : handleRowieSettings("numHands", value)
  \/ \E value \in b.pots : handleRowieSettings("potAmount", value)
  \/ handleNewRowie
  \/ handleRowieSettingsContinue

Typing(b) ==
  \/ \E row \in b.rows : handleHandResult(row)
  \/ \E idx \in b.toggles : toggleNegative(idx)

Submit(b) == handsPlayed < b.hands /\ handleSubmitHand

Navigation ==
  \/ handlePreviousHand
  \/ handleNextHand
  \/ handleCurrentHand

Summary ==
  \/ handleFinish
  \/ handleMercyCalculation

Menu ==
  \/ handleNewGame
  \/ DismissAlert

Archive(b) ==
  \/ Len(history) < b.history /\ Len(pendingWrites) < b.pending
       /\ handleSaveAndExit
  \/ \E index \in 1..Len(history) :
       Len(pendingWrites) < b.pending /\ deleteHistoryRound(index)
  \/ \E index \in 1..Len(history) : loadHistoryRound(index)
  \/ exitHistoryView
  \/ handleReturnToGame
  \/ handleHistoryMenu
  \/ HistoryWriteDone

Restart ==
  \E landed \in 0..Len(pendingWrites) : \E fresh \in BOOLEAN : Reload(landed, fresh)

\* The whole app, closed and opened again at any time
Whole ==
  [names |-> {AllNamed(n) : n \in PlayerCounts},
   rows |-> {<<40, 0 - 40>>, <<50, 0 - 20, 0 - 30>>}, toggles |-> {1},
   rowieHands |-> {1}, pots |-> {DEFAULT_POT}, hands |-> MaxHandsPlayed,
   history |-> MaxHistory, pending |-> MaxPending]

Next ==
  \/ SetUp(Whole)
  \/ Rowies(Whole)
  \/ Typing(Whole)
  \/ Submit(Whole)
  \/ Summary
  \/ Menu
  \/ Archive(Whole)
  \/ HistoryWriteFails
  \/ Restart

Spec == Init /\ [][Next]_vars

\* One session, with all that can be typed in it; nothing is saved to the
\* history and the app stays open
OneSession ==
  [names |-> {AllNamed(n) : n \in PlayerCounts} \cup {BlankFirst},
   rows |-> HandInputs, toggles |-> 1..MaxN,
   rowieHands |-> (0 - 1)..MaxRowieHands,
   pots |-> PotInputs, hands |-> MaxHandsSession]

NextSession ==
  \/ SetUp(OneSession)
  \/ Rowies(OneSession)
  \/ Typing(OneSession)
  \/ Submit(OneSession)
  \/ Navigation
  \/ Summary
  \/ Menu

SpecSession == Init /\ [][NextSession]_vars

\* Session after session in an app that stays open, the hands left as the
\* screen offers them or typed for two players
Sessions ==
  [names |-> {AllNamed(n) : n \in PlayerCounts}, rows |-> {<<40, 0 - 40>>},
   hands |-> MaxHandsPlayed, history |-> MaxHistorySessions,
   pending |-> MaxPending]

NextSessions ==
  \/ SetUp(Sessions)
  \/ \E row \in Sessions.rows : handleHandResult(row)
  \/ Submit(Sessions)
  \/ Summary
  \/ Menu
  \/ Archive(Sessions)

SpecSessions == Init /\ [][NextSessions]_vars

\* Games with a name blanked out, in an app that stays open and keeps a
\* history
Named ==
  [names |-> {AllNamed(n) : n \in PlayerCounts} \cup {BlankFirst},
   hands |-> MaxHandsPlayed, history |-> MaxHistory, pending |-> MaxPending]

NextNamed ==
  \/ SetUp(Named)
  \/ Submit(Named)
  \/ Summary
  \/ Menu
  \/ Archive(Named)

SpecNamed == Init /\ [][NextNamed]_vars

\* One session of two players who go back to earlier hands and submit again
Correcting ==
  [names |-> {AllNamed(MIN_PLAYERS)},
   rows |-> {<<40, 0 - 40>>, <<0 - 15, 15>>}, toggles |-> {1},
   rowieHands |-> {MaxRowieHands}, pots |-> {DEFAULT_POT},
   hands |-> MaxHandsCorrected]

NextCorrecting ==
  \/ SetUp(Correcting)
  \/ Rowies(Correcting)
  \/ Typing(Correcting)
  \/ Submit(Correcting)
  \/ Navigation
  \/ Menu

SpecCorrecting == Init /\ [][NextCorrecting]_vars

\* The app closed and opened again, with a store that may fail to be read
RestartUnreadable ==
  \E landed \in 0..Len(pendingWrites) : ReloadUnreadable(landed)

NextUnreadable ==
  \/ NextNamed
  \/ Restart
  \/ RestartUnreadable

SpecUnreadable == Init /\ [][NextUnreadable]_vars

\* Games of two players saved while earlier history writes are under way or
\* fail
Saving ==
  [names |-> {AllNamed(MIN_PLAYERS)}, hands |-> MaxHandsPlayed,
   history |-> MaxHistorySessions, pending |-> MaxPendingSaves]

NextSaving ==
  \/ SetUp(Saving)
  \/ Submit(Saving)
  \/ Summary
  \/ Menu
  \/ Archive(Saving)
  \/ HistoryWriteFails

SpecSaving == Init /\ [][NextSaving]_vars

-----------------------------------------------------------------------------
(* The settlement calculations made on their own *)

\* the vector and the pot amount a calculation is to be made on
CalcInput(v, pot) ==
  [op |-> "input", points |-> v, n |-> Len(v), potAmount |-> pot,
   once |-> << >>, out |-> << >>]

InitCalc ==
  /\ step = 1
  /\ numPlayers = 2
  /\ playerNames = ArrayFill(2, << >>)
  /\ chips = ArrayFill(2, 0)
  /\ rowie = ArrayFill(2, 0)
  /\ rowieSettings = InitialRowieSettings
  /\ history = << >>
  /\ selectedHistory = << >>
  /\ hands = << >>
  /\ currentHandIndex = 0 - 1
  /\ handResults = ArrayFill(2, 0)
  /\ showSummary = FALSE
  /\ mercyApplied = FALSE
  /\ preMercyChips = << >>
  /\ completedRowies = << >>
  /\ storedGame = << >>
  /\ storedHistory = << >>
  /\ pendingWrites = << >>
  /\ alert = NoAlert
  /\ reduced = FALSE
  /\ handsPlayed = 0
  /\ \E v \in CalcVectors : \E pot \in CalcPots : calc = CalcInput(v, pot)

\* calculateBubblePayouts(calc.points) with numPlayers = calc.n
CalcBubble ==
  /\ calc.op = "input"
  /\ \E sorted \in SortedChipAmounts(calc.points) :
       calc' = [calc EXCEPT !.op = "bubble",
                            !.out = BubblePayoutsSorted(calc.points, calc.n, sorted)]
  /\ UNCHANGED <<step, numPlayers, playerNames, chips, rowie, rowieSettings,
                 history, selectedHistory, hands, currentHandIndex,
                 handResults, showSummary, mercyApplied, preMercyChips,
                 completedRowies, storedGame, storedHistory, pendingWrites,
                 alert, reduced, handsPlayed>>

\* calculateRowiePayouts(calc.points) with numPlayers = calc.n and
\* rowieSettings.potAmount = calc.potAmount
CalcRowie ==
  /\ calc.op = "input"
  /\ calc' = [calc EXCEPT !.op = "rowie",
                          !.out = calculateRowiePayouts(calc.points, calc.n,
                                                        calc.potAmount)]
  /\ UNCHANGED <<step, numPlayers, playerNames, chips, rowie, rowieSettings,
                 history, selectedHistory, hands, currentHandIndex,
                 handResults, showSummary, mercyApplied, preMercyChips,
                 completedRowies, storedGame, storedHistory, pendingWrites,
                 alert, reduced, handsPlayed>>

NextCalc ==
  \/ CalcBubble
  \/ CalcRowie

SpecCalc == InitCalc /\ [][NextCalc]_vars

-----------------------------------------------------------------------------
(* The mercy calculation made on its own *)

InitMercy ==
  /\ step = 1
  /\ numPlayers = 2
  /\ playerNames = ArrayFill(2, << >>)
  /\ chips = ArrayFill(2, 0)
  /\ rowie = ArrayFill(2, 0)
  /\ rowieSettings = InitialRowieSettings
  /\ history = << >>
  /\ selectedHistory = << >>
  /\ hands = << >>
  /\ currentHandIndex = 0 - 1
  /\ handResults = ArrayFill(2, 0)
  /\ showSummary = FALSE
  /\ mercyApplied = FALSE
  /\ preMercyChips = << >>
  /\ completedRowies = << >>
  /\ storedGame = << >>
  /\ storedHistory = << >>
  /\ pendingWrites = << >>
  /\ alert = NoAlert
  /\ reduced = FALSE
  /\ handsPlayed = 0
  /\ \E v \in MercyVectors : calc = CalcInput(v, DEFAULT_POT)

\* the chips.map of handleMercyCalculation on chips = calc.points
CalcMercy ==
  /\ calc.op = "input"
  /\ calc' = [calc EXCEPT !.op = "mercy",
                          !.once = MercyChips(calc.points),
                          !.out = MercyChips(calc.points)]
  /\ UNCHANGED <<step, numPlayers, playerNames, chips, rowie, rowieSettings,
                 history, selectedHistory, hands, currentHandIndex,
                 handResults, showSummary, mercyApplied, preMercyChips,
                 completedRowies, storedGame, storedHistory, pendingWrites,
                 alert, reduced, handsPlayed>>

\* the chips.map of handleMercyCalculation on the chips it made
CalcMercyAgain ==
  /\ calc.op = "mercy"
  /\ calc' = [calc EXCEPT !.op = "mercy twice", !.out = MercyChips(calc.out)]
  /\ UNCHANGED <<step, numPlayers, playerNames, chips, rowie, rowieSettings,
                 history, selectedHistory, hands, currentHandIndex,
                 handResults, showSummary, mercyApplied, preMercyChips,
                 completedRowies, storedGame, storedHistory, pendingWrites,
                 alert, reduced, handsPlayed>>

NextMercy ==
  \/ CalcMercy
  \/ CalcMercyAgain

SpecMercy == InitMercy /\ [][NextMercy]_vars

-----------------------------------------------------------------------------
(* Replay *)

\* the sum of the amounts player k has in the hands from..upto of hs; a hand
\* without an amount for the player adds nothing
RECURSIVE ReplayTotal(_, _, _, _)
ReplayTotal(hs, k, from, upto) ==
  IF upto < from THEN 0
  ELSE ReplayTotal(hs, k, from, upto - 1)
       + (IF k <= Len(hs[upto]) /\ IsNum(hs[upto][k]) THEN hs[upto][k] ELSE 0)

\* a game is on screen and no mercy calculation has been made in it
InGameUnreduced == step \in {3, 4} /\ ~mercyApplied /\ ~reduced

\* C1: in a game without the mercy calculation, every player's chips are
\* the sum of that player's amounts over the hands kept
C1_ReplayEquivalence ==
  InGameUnreduced =>
    \A k \in 1..Len(playerNames) :
      At(chips, k) = ReplayTotal(hands, k, 1, Len(hands))

-----------------------------------------------------------------------------
(* Hands that do not sum to zero *)

\* C2: a submitted hand whose amounts do not sum to zero is refused with the
\* alert, and the chips, the hands, the hand shown, the Rowie points, the
\* Rowie settings and the completed Rowies stay as they were
C2_NonZeroSumRejected ==
  [][(handleSubmitHand /\ ReduceSum(handResults) # 0) =>
       (/\ alert' = SumAlert
        /\ UNCHANGED <<chips, hands, currentHandIndex, rowie, rowieSettings,
                       completedRowies>>)]_vars

\* a hand of three players has just been refused
C2_Witness == alert = SumAlert /\ Len(handResults) = 3 /\ Len(playerNames) = 3

\* C3: in a game without the mercy calculation the chips sum to zero
C3_ZeroSum == InGameUnreduced => ReduceSum(chips) = 0

-----------------------------------------------------------------------------
(* Bubble payouts *)

\* C4: the bubble payouts of any chip counts sum to zero
C4_BubbleSumsToZero == calc.op = "bubble" => ReduceSum(calc.out) = 0

\* chip counts with a tie and a loser have been settled
C4_Witness ==
  /\ calc.op = "bubble"
  /\ \E i, j, k \in 1..Len(calc.points) :
       /\ i # j
       /\ calc.points[i] = calc.points[j]
       /\ calc.points[k] < calc.points[i]
       /\ calc.points[k] < 0

\* players with fewer chips, and with more chips, than player i
Below(points, i) == Cardinality({j \in 1..Len(points) : points[j] < points[i]})

Above(points, i) == Cardinality({j \in 1..Len(points) : points[j] > points[i]})

\* C5: the bubble payout of a player is BUBBLE_AMOUNT times the number of
\* players with fewer chips less the number of players with more chips, so
\* players with equal chips are paid the same
C5_BubbleFormula ==
  calc.op = "bubble" =>
    /\ \A i \in 1..Len(calc.points) :
         calc.out[i] = BUBBLE_AMOUNT * (Below(calc.points, i) - Above(calc.points, i))
    /\ \A i, j \in 1..Len(calc.points) :
         calc.points[i] = calc.points[j] => calc.out[i] = calc.out[j]

\* two players tied between a player above and a player below
C5_Witness ==
  /\ calc.op = "bubble"
  /\ \E i, j \in 1..Len(calc.points) :
       /\ i # j
       /\ calc.points[i] = calc.points[j]
       /\ Below(calc.points, i) > 0
       /\ Above(calc.points, i) > 0

\* the summary of a game of three players with the one hand 50, -20, -30
ScenarioOne ==
  /\ step = 3
  /\ showSummary
  /\ Len(playerNames) = 3
  /\ hands = <<<<50, 0 - 20, 0 - 30>>>>

\* C6: after the one hand 50, -20, -30 of three players the chips at the end
\* of the game are 50, -20, -30 and the bubble pays 20, 0, -20
C6_ScenarioOne ==
  ScenarioOne =>
    /\ preMercyChips = <<50, 0 - 20, 0 - 30>>
    /\ calculateBubblePayouts(preMercyChips, numPlayers) = <<20, 0, 0 - 20>>

C6_Witness == ScenarioOne /\ alert = NoAlert

\* C6 as stated: the second and third player tied, each paying 10
C6_AsStated ==
  ScenarioOne =>
    /\ preMercyChips = <<50, 0 - 20, 0 - 30>>
    /\ calculateBubblePayouts(preMercyChips, numPlayers) = <<20, 0 - 10, 0 - 10>>

-----------------------------------------------------------------------------
(* Rowie payouts *)

\* the sum of the points above zero
RECURSIVE PositivePoints(_, _)
PositivePoints(points, k) ==
  IF k = 0 THEN 0
  ELSE PositivePoints(points, k - 1) + (IF points[k] > 0 THEN points[k] ELSE 0)

\* C7: a player with points above zero is paid the pot, numPlayers times the
\* pot amount, in proportion to the points above zero, rounded
C7_ProportionalPot ==
  calc.op = "rowie" =>
    \A i \in 1..Len(calc.points) :
      calc.points[i] > 0 =>
        calc.out[i] = RoundDiv(calc.points[i] * calc.n * calc.potAmount,
                               PositivePoints(calc.points, Len(calc.points)))

\* C8: a player with no points above zero is paid nothing, and nobody is
\* paid anything when no player has points above zero
C8_NothingForNoPoints ==
  calc.op = "rowie" =>
    /\ \A i \in 1..Len(calc.points) : calc.points[i] <= 0 => calc.out[i] = 0
    /\ PositivePoints(calc.points, Len(calc.points)) = 0 =>
         \A i \in 1..Len(calc.out) : calc.out[i] = 0

\* the payouts of points none of which is above zero, some below
C8_Witness ==
  /\ calc.op = "rowie"
  /\ PositivePoints(calc.points, Len(calc.points)) = 0
  /\ \E i \in 1..Len(calc.points) : calc.points[i] < 0

-----------------------------------------------------------------------------
(* Rowies in a game *)

\* the hands first..last of hs have an amount for each of n players
HandsWhole(hs, first, last, n) ==
  \A h \in first..last :
    /\ Len(hs[h]) = n
    /\ \A k \in 1..n : IsNum(hs[h][k])

\* the initials of those of the first k players who won the most over the
\* hands first..last of hs
RECURSIVE TopInitials(_, _, _, _, _)
TopInitials(hs, names, first, last, k) ==
  IF k = 0 THEN << >>
  ELSE IF \A j \in 1..Len(names) :
            ReplayTotal(hs, k, first, last) >= ReplayTotal(hs, j, first, last)
       THEN Append(TopInitials(hs, names, first, last, k - 1), Initial(names[k]))
       ELSE TopInitials(hs, names, first, last, k - 1)

\* this step completes a Rowie
RowieCompleted == Len(completedRowies') = Len(completedRowies) + 1

\* C9: the winners of a completed Rowie are the players who won the most
\* over its hands, all of them when several are level, and there is one
C9_Winners ==
  [][(/\ RowieCompleted
      /\ HandsWhole(hands', rowieSettings.startHand + 1, Len(hands'),
                    Len(playerNames))) =>
       LET winners == completedRowies'[Len(completedRowies')].winners
       IN  /\ winners = TopInitials(hands', playerNames,
                                    rowieSettings.startHand + 1, Len(hands'),
                                    Len(playerNames))
           /\ winners # << >>]_vars

\* C10: while a Rowie is under way and when it is completed, the Rowie points
\* of every player are what the player won over the hands of that Rowie
C10_WindowPoints ==
  /\ [](rowieSettings.currentHand > 0 =>
          \A k \in 1..Len(playerNames) :
            At(rowie, k) = ReplayTotal(hands, k, rowieSettings.startHand + 1,
                                       Len(hands)))
  /\ [][RowieCompleted =>
          \A k \in 1..Len(playerNames) :
            At(rowie', k) = ReplayTotal(hands', k, rowieSettings.startHand + 1,
                                        Len(hands'))]_vars

-----------------------------------------------------------------------------
(* One Rowie at a time *)

\* C11: 'New Rowie' pressed while the Rowie under way has hands left is
\* refused with the alert, the Rowie settings and the step stay as they
\* were, and the Rowie settings screen is never shown with hands left
C11_NewRowieRefused ==
  /\ [](step = 4 => rowieSettings.currentHand = 0)
  /\ [][(handleNewRowie /\ rowieSettings.currentHand > 0) =>
          (/\ alert' = RowieOpenAlert
           /\ UNCHANGED <<rowieSettings, step, hands, completedRowies>>)]_vars

\* 'New Rowie' has just been refused
C11_Witness ==
  /\ alert = RowieOpenAlert
  /\ step = 3
  /\ rowieSettings.currentHand > 0

\* this step is handleSubmitHand taking the hand
HandAccepted == handleSubmitHand /\ Len(hands') = Len(hands) + 1

\* this step is handleSubmitHand refusing the hand
HandRefused == handleSubmitHand /\ hands' = hands

\* C12: a Rowie started with numHands hands has that many hands less the hands
\* taken since its start left; every hand taken leaves one hand fewer, the
\* hand taken with one hand left completes the Rowie and adds one completed
\* Rowie, no other hand adds one, and a hand refused leaves the hands left
\* as they were
C12_RowieLength ==
  /\ [](step \in {3, 4} /\ rowieSettings.currentHand > 0 =>
          rowieSettings.currentHand =
            rowieSettings.numHands - (Len(hands) - rowieSettings.startHand))
  /\ [][(handleRowieSettingsContinue /\ step' = 3) =>
          (/\ rowieSettings'.currentHand = rowieSettings.numHands
           /\ rowieSettings'.numHands = rowieSettings.numHands
           /\ rowieSettings'.startHand = Len(hands))]_vars
  /\ [][(HandAccepted /\ rowieSettings.currentHand > 0) =>
          (/\ rowieSettings'.currentHand = rowieSettings.currentHand - 1
           /\ rowieSettings'.numHands = rowieSettings.numHands
           /\ rowieSettings'.startHand = rowieSettings.startHand
           /\ IF rowieSettings.currentHand = 1
              THEN /\ Len(completedRowies') = Len(completedRowies) + 1
                   /\ SubSeq(completedRowies', 1, Len(completedRowies))
                        = completedRowies
              ELSE completedRowies' = completedRowies)]_vars
  /\ [][(HandAccepted /\ rowieSettings.currentHand <= 0) =>
          (/\ rowieSettings'.currentHand = rowieSettings.currentHand
           /\ completedRowies' = completedRowies)]_vars
  /\ [][HandRefused => UNCHANGED <<rowieSettings, completedRowies>>]_vars

\* a Rowie of two hands has been completed by the second hand taken since
\* its start
C12_Witness ==
  /\ step = 3
  /\ rowieSettings.numHands = 2
  /\ rowieSettings.isComplete
  /\ rowieSettings.currentHand = 0
  /\ Len(hands) = rowieSettings.startHand + 2
  /\ Len(completedRowies) = 1

-----------------------------------------------------------------------------
(* Finishing the game *)

\* C13: 'Finish' pressed while the Rowie under way has hands left is refused
\* with the alert: the summary is not shown, the chips are not copied to
\* preMercyChips and the game stays as it was.  'Finish' pressed with no
\* hands left shows the summary and copies the chips, and the summary is
\* never on screen with hands left.
C13_FinishRefused ==
  /\ [](SummaryShown => rowieSettings.currentHand <= 0)
  /\ [][(handleFinish /\ rowieSettings.currentHand > 0) =>
          (/\ alert' = FinishAlert
           /\ ~showSummary'
           /\ UNCHANGED <<preMercyChips, step, numPlayers, playerNames, chips,
                          rowie, rowieSettings, hands, currentHandIndex,
                          handResults, mercyApplied, completedRowies>>)]_vars
  /\ [][(handleFinish /\ rowieSettings.currentHand <= 0) =>
          (showSummary' /\ preMercyChips' = chips)]_vars

\* 'Finish' has just been refused in a game with a hand played
C13_Witness ==
  /\ alert = FinishAlert
  /\ step = 3
  /\ ~showSummary
  /\ rowieSettings.currentHand > 0
  /\ Len(hands) > 0

-----------------------------------------------------------------------------
(* Rowie settings *)

\* C14: 'Start Rowie' pressed with a number of hands or a value that is not
\* above zero is refused with the alert: no hands are left to play, the
\* start of the Rowie and the step stay as they were; and a Rowie has hands
\* left only with a number of hands and a value above zero
C14_SettingsRefused ==
  /\ [](step \in {3, 4} /\ rowieSettings.currentHand > 0 =>
          rowieSettings.numHands > 0 /\ rowieSettings.potAmount > 0)
  /\ [][(/\ handleRowieSettingsContinue
         /\ rowieSettings.numHands <= 0 \/ rowieSettings.potAmount <= 0) =>
          (/\ alert' = SettingsAlert
           /\ rowieSettings'.currentHand = 0
           /\ UNCHANGED <<rowieSettings, step, hands, rowie, completedRowies>>)]_vars

\* the settings have just been refused for the value alone
C14_Witness ==
  /\ alert = SettingsAlert
  /\ step = 4
  /\ rowieSettings.numHands > 0
  /\ rowieSettings.potAmount = 0
  /\ rowieSettings.currentHand = 0

-----------------------------------------------------------------------------
(* The mercy calculation *)

\* whole number r is as near to total / 80 as a whole number can be
NearestEightieth(r, total) ==
  /\ r \in Int
  /\ 2 * (80 * r - total) <= 80
  /\ 2 * (total - 80 * r) <= 80

\* C15: the mercy calculation puts in place of the chips of every player,
\* above or below zero, the whole number nearest to the chips times 0.0125,
\* whatever the chips of the other players
C15_MercyNearest ==
  calc.op = "mercy" =>
    /\ Len(calc.out) = Len(calc.points)
    /\ \A i \in 1..Len(calc.points) :
         /\ NearestEightieth(calc.out[i], calc.points[i])
         /\ calc.out[i] = MercyAmount(calc.points[i])

\* the mercy calculation has been made on chips above zero and chips below
\* zero that are half way between two whole numbers
C15_Witness ==
  /\ calc.op = "mercy"
  /\ \E i, j \in 1..Len(calc.points) :
       /\ calc.points[i] = 40 /\ calc.out[i] = 1
       /\ calc.points[j] = 0 - 40 /\ calc.out[j] = 0

\* C16: the mercy calculation made a second time gives chips other than
\* those of the first time exactly when some player's chips were 40 or more,
\* or less than -40: those are the chips the first calculation does not
\* bring to zero
C16_MercyTwice ==
  calc.op = "mercy twice" =>
    (calc.out # calc.once <=>
       \E i \in 1..Len(calc.points) :
         calc.points[i] >= 40 \/ calc.points[i] < 0 - 40)

\* the mercy calculation has been made twice on chips of 40 and -40
C16_Witness ==
  /\ calc.op = "mercy twice"
  /\ calc.points = <<0 - 40, 40>>
  /\ calc.once = <<0, 1>>
  /\ calc.out = <<0, 0>>

\* C16 as stated: the second calculation gives other chips than the first
\* whenever some player's chips are not zero
C16_AsStated ==
  (/\ calc.op = "mercy twice"
   /\ \E i \in 1..Len(calc.points) : calc.points[i] # 0) =>
    calc.out # calc.once

\* C17: the mercy calculation is never made on chips it has already been
\* made on, whether the app is closed and opened again or the history is
\* visited in between
C17_MercyOnce == [][handleMercyCalculation => ~reduced]_vars

-----------------------------------------------------------------------------
(* Leaving the mercy calculation out *)

\* the summary is on screen and the mercy calculation has not been made
SummaryBeforeMercy == SummaryShown /\ ~mercyApplied

\* C18: the mercy calculation can be left out: with the summary on screen
\* before the mercy calculation, the game can be saved to the history as
\* it is
C18_SaveWithoutMercy == SummaryBeforeMercy => ENABLED handleSaveAndExit

\* What stands in the way of C18 whatever else is pressed first: a game is
\* saved only with mercyApplied set, mercyApplied is set only by the mercy
\* calculation made on the chips on screen, and it is never set without the
\* summary
SaveOnlyAfterMercy ==
  /\ [](mercyApplied => showSummary)
  /\ [][handleSaveAndExit => mercyApplied]_vars
  /\ [][(~mercyApplied /\ mercyApplied') =>
          (handleMercyCalculation /\ reduced' /\ chips' = MercyChips(chips))]_vars

-----------------------------------------------------------------------------
(* The bubble and the mercy calculation *)

\* the summary shows the chips of the game before and after the mercy
\* calculation, all of them numbers
SummaryAfterMercy ==
  /\ SummaryShown
  /\ mercyApplied
  /\ Len(preMercyChips) = numPlayers
  /\ \A k \in 1..Len(preMercyChips) : IsNum(preMercyChips[k])
  /\ chips = MercyChips(preMercyChips)

\* C19: the bubble payouts shown after the mercy calculation, and those kept
\* in the round saved to the history, are the bubble payouts of the chips
\* before the mercy calculation
C19_BubbleWithoutMercy ==
  /\ [](SummaryAfterMercy =>
          calculateBubblePayouts(chips, numPlayers)
            = calculateBubblePayouts(preMercyChips, numPlayers))
  /\ [][(SummaryAfterMercy /\ handleSaveAndExit) =>
          history'[1].bubblePayouts
            = calculateBubblePayouts(preMercyChips, numPlayers)]_vars

-----------------------------------------------------------------------------
(* Saving to the history *)

\* this step is handleSaveAndExit going on after the history has been written
SaveResumed == HistoryWriteDone /\ Head(pendingWrites).resume

\* C20: 'Save to History' puts one round in front of the history, with the
\* names, the chips, the hands and the completed Rowies of the game, and
\* leaves the rounds kept before as they were; once the history is written
\* the game is cleared: the player count screen, two blank names, chips at
\* zero, no hands, no Rowie under way, no completed Rowies, the summary and
\* the mercy flag off, and no game in storage
C20_SaveAndClear ==
  /\ [][handleSaveAndExit =>
          (/\ Len(history') = Len(history) + 1
           /\ Tail(history') = history
           /\ history'[1].playerNames = playerNames
           /\ history'[1].finalChips = chips
           /\ history'[1].hands = hands
           /\ history'[1].completedRowies = completedRowies)]_vars
  /\ [][SaveResumed =>
          (/\ step' = 1
           /\ playerNames' = ArrayFill(2, << >>)
           /\ chips' = ArrayFill(2, 0)
           /\ hands' = << >>
           /\ rowieSettings'.currentHand = 0
           /\ completedRowies' = << >>
           /\ ~showSummary'
           /\ ~mercyApplied'
           /\ storedGame' = << >>)]_vars

-----------------------------------------------------------------------------
(* The rounds of the history *)

\* h without its round i
WithoutRound(h, i) == SubSeq(h, 1, i - 1) \o SubSeq(h, i + 1, Len(h))

\* C21: a step leaves the history as it was, puts one round in front of it
\* or takes one whole round out of it; the rounds that stay are never
\* changed, whether a round is on view or has been loaded into the game
C21_HistoryImmutable ==
  [][\/ history' = history
     \/ Len(history') = Len(history) + 1 /\ Tail(history') = history
     \/ \E i \in 1..Len(history) : history' = WithoutRound(history, i)]_vars

-----------------------------------------------------------------------------
(* A new game *)

\* C22: 'New Game' can be pressed and confirmed on every screen; it leads to
\* the player count screen with two players, blank names, chips and Rowie
\* points at zero, no Rowie under way, no hands, no completed Rowies, the
\* summary and the mercy flag off and no game in storage, and it leaves the
\* history as it was
C22_NewGame ==
  /\ [](alert = NoAlert => ENABLED handleNewGame)
  /\ [][handleNewGame =>
          (/\ step' = 1
           /\ numPlayers' = 2
           /\ playerNames' = ArrayFill(2, << >>)
           /\ chips' = <<0, 0>>
           /\ rowie' = <<0, 0>>
           /\ rowieSettings'.currentHand = 0
           /\ rowieSettings'.numHands = 0
           /\ ~rowieSettings'.isComplete
           /\ hands' = << >>
           /\ completedRowies' = << >>
           /\ ~showSummary'
           /\ ~mercyApplied'
           /\ storedGame' = << >>
           /\ UNCHANGED <<history, storedHistory>>)]_vars

\* a new game has just been started out of a game with a completed Rowie on
\* its summary, with a round in the history
C22_Witness ==
  /\ step = 1
  /\ preMercyChips # << >>
  /\ completedRowies = << >>
  /\ ~showSummary
  /\ storedGame = << >>
  /\ Len(history) > 0
  /\ handsPlayed > 0

-----------------------------------------------------------------------------
(* Into and out of the history view *)

\* C23: while the app stays open, the history view is entered with a round
\* in the history, by the 'History' button from any screen or by pressing a
\* round of the list on the player count screen; it is left for the player
\* count screen, or for the game by 'Return to Current Game' when some name
\* is entered
C23_HistoryView ==
  [][~Restart =>
       (/\ (step # 5 /\ step' = 5) =>
             (/\ Len(history) > 0
              /\ \/ handleHistoryMenu
                 \/ step = 1 /\ \E index \in 1..Len(history) :
                                  loadHistoryRound(index))
        /\ (step = 5 /\ step' # 5) =>
             (\/ step' = 1
              \/ (/\ step' = 3
                  /\ handleReturnToGame
                  /\ SomeNameEntered(playerNames))))]_vars

\* the history view has been entered by the 'History' button from a game
\* with a hand played
C23_Witness ==
  /\ step = 5
  /\ selectedHistory = << >>
  /\ SomeNameEntered(playerNames)
  /\ hands # << >>
  /\ Len(history) > 0

\* C23 as stated: the history view is entered from the player count screen
\* only and left for the player count screen only
C23_AsStated ==
  [][~Restart =>
       (/\ (step # 5 /\ step' = 5) => step = 1
        /\ (step = 5 /\ step' # 5) => step' = 1)]_vars

-----------------------------------------------------------------------------
(* One entry for each player *)

\* C24: the names, the chips, the Rowie points, the amounts of every hand
\* kept and the amounts being typed have one entry for each of the
\* numPlayers players
C24_Lengths ==
  /\ Len(playerNames) = numPlayers
  /\ Len(chips) = numPlayers
  /\ Len(rowie) = numPlayers
  /\ Len(handResults) = numPlayers
  /\ \A h \in 1..Len(hands) : Len(hands[h]) = numPlayers

-----------------------------------------------------------------------------
(* Names *)

\* C25: 'Continue' pressed on the names screen with a name that is empty or
\* all spaces is refused with the alert and changes nothing else, and in a
\* game no name is empty or all spaces, however the game was come to
C25_NamesEntered ==
  /\ [](step \in {3, 4} => ~SomeNameBlank(playerNames))
  /\ [][(handleNamesContinue /\ SomeNameBlank(playerNames)) =>
          (/\ alert' = NamesAlert
           /\ UNCHANGED <<step, numPlayers, playerNames, chips, rowie,
                          rowieSettings, hands, currentHandIndex, handResults,
                          showSummary, mercyApplied, completedRowies,
                          history>>)]_vars

\* C26: a hand submitted while an earlier hand is shown replaces that hand's
\* record in place: the number of hands is unchanged and the record shown
\* becomes the results entered
EarlierHandShown == Len(hands) > 0 /\ currentHandIndex < Len(hands) - 1

C26_HandCorrection ==
  [][(handleSubmitHand /\ EarlierHandShown /\ SumIsZero(handResults)
        /\ handResults # hands[currentHandIndex + 1])
     => /\ Len(hands') = Len(hands)
        /\ hands'[currentHandIndex + 1] = Spread(handResults)]_vars

\* C27: when the app is opened with a game in the store, a game saved less
\* than 24 hours ago is restored (step, number of players, names, chips,
\* Rowie points, Rowie settings, hands and hand cursor are the saved ones) and
\* stays in the store; a game saved 24 hours ago or more is not restored: the
\* app is in its initial state and the game is removed from the store
GameRestored(data) ==
  /\ step' = data.step
  /\ numPlayers' = data.numPlayers
  /\ playerNames' = data.playerNames
  /\ chips' = data.chips
  /\ rowie' = data.rowie
  /\ rowieSettings' = data.rowieSettings
  /\ hands' = data.hands
  /\ currentHandIndex' = data.currentHandIndex

GameInitial ==
  /\ step' = 1
  /\ numPlayers' = 2
  /\ playerNames' = ArrayFill(2, << >>)
  /\ chips' = ArrayFill(2, 0)
  /\ rowie' = ArrayFill(2, 0)
  /\ rowieSettings' = InitialRowieSettings
  /\ hands' = << >>
  /\ currentHandIndex' = 0 - 1

C27_Load ==
  [][\A landed \in 0..Len(pendingWrites) : \A fresh \in BOOLEAN :
       (Reload(landed, fresh) /\ storedGame # << >>)
       => IF fresh
          THEN GameRestored(storedGame[1]) /\ storedGame' = storedGame
          ELSE GameInitial /\ storedGame' = << >>]_vars

\* a game of three players with a hand played is on screen after a restart:
\* the hand entry boxes are the two of a new app and the game is the saved one
C27_Witness ==
  /\ step = 3
  /\ numPlayers = 3
  /\ Len(hands) = 1
  /\ handResults = ArrayFill(2, 0)
  /\ storedGame # << >>
  /\ hands = storedGame[1].hands
  /\ chips = storedGame[1].chips
  /\ playerNames = storedGame[1].playerNames

\* C28: when the app is opened and the saved game cannot be read, the game is
\* no longer in the store, the app is in its initial state and the history
\* kept in the store is loaded
C28_LoadUnreadable ==
  [][\A landed \in 0..Len(pendingWrites) :
       ReloadUnreadable(landed)
       => /\ storedGame' = << >>
          /\ GameInitial
          /\ history' = storedHistory']_vars

\* C29: while a Rowie is under way (currentHand > 0) the Rowie settings screen
\* is not shown, and no step changes the Rowie's startHand, numHands or
\* potAmount other than one that abandons the game: New Game, Continue on the
\* names screen, Back to History, the clearing of the game that ends Save to
\* History, and opening the app with a game saved 24 hours ago or more
GameAbandoned ==
  \/ handleNewGame
  \/ handleNamesContinue
  \/ exitHistoryView
  \/ SaveResumed
  \/ \E landed \in 0..Len(pendingWrites) : Reload(landed, FALSE)

RowieFixed ==
  /\ rowieSettings'.startHand = rowieSettings.startHand
  /\ rowieSettings'.numHands = rowieSettings.numHands
  /\ rowieSettings'.potAmount = rowieSettings.potAmount

LastCompleted == completedRowies'[Len(completedRowies')]

C30_CompletedRowie ==
  /\ [][(handleRowieSettingsContinue /\ step' = 3) =>
          (/\ rowieSettings'.startHand = Len(hands)
           /\ rowieSettings'.numHands = rowieSettings.numHands
           /\ rowieSettings'.potAmount = rowieSettings.potAmount)]_vars
  /\ [][(RowieUnderWay(rowieSettings) /\ RowieUnderWay(rowieSettings')) =>
          (RowieFixed /\ Len(hands') >= Len(hands))]_vars
  /\ [][RowieCompleted =>
          (/\ LastCompleted.startHand = rowieSettings.startHand + 1
           /\ LastCompleted.endHand = Len(hands')
           /\ Len(hands') = Len(hands) + 1
           /\ LastCompleted.endHand - LastCompleted.startHand + 1
                = rowieSettings.numHands
           /\ LastCompleted.value = rowieSettings.potAmount)]_vars

\* a Rowie of one hand started after the first hand is recorded as hand 2 to
\* hand 2
C30_Witness ==
  /\ Len(completedRowies) = 1
  /\ completedRowies[1].startHand = 2
  /\ completedRowies[1].endHand = 2
  /\ completedRowies[1].value = DEFAULT_POT
  /\ Len(hands) = 2
  /\ rowieSettings.numHands = 1

-----------------------------------------------------------------------------
(* The completed Rowies of a game *)

\* C31: the completed Rowies saved with a game are those of that game: they
\* are numbered 1, 2, ... in the order they were completed, a game that is
\* restored when the app is opened again keeps them, a game with no hand
\* taken has none, and the round saved holds them all
NumberedInOrder(completed) ==
  \A i \in 1..Len(completed) : completed[i].rowieNumber = i

NoneBeforeFirstHand ==
  (step \in {3, 4} /\ hands = << >>) => completedRowies = << >>

KeptWhenRestored ==
  \A landed \in 0..Len(pendingWrites) :
    (Reload(landed, TRUE) /\ storedGame # << >>)
    => completedRowies' = completedRowies

C31_CompletedRowiesSaved ==
  /\ [](NumberedInOrder(completedRowies) /\ NoneBeforeFirstHand)
  /\ [][KeptWhenRestored]_vars
  /\ [][handleSaveAndExit =>
          history'[1].completedRowies = completedRowies]_vars

-----------------------------------------------------------------------------
(* The summary as the end of a game *)

\* C32: once 'End Game' has shown the summary, the game stays at its summary
\* until it is saved or abandoned, also when the app is closed and opened
\* again within 24 hours: no hand is added, the Rowie settings stay as they
\* are, and the chips change only by the one mercy calculation
SummaryReached == showSummary /\ step \in {3, 4, 5}

C32_SummaryTerminal ==
  [][(SummaryReached /\ ~GameAbandoned) =>
       (/\ SummaryReached'
        /\ hands' = hands
        /\ rowieSettings' = rowieSettings
        /\ \/ chips' = chips
           \/ ~reduced /\ handleMercyCalculation)]_vars

-----------------------------------------------------------------------------
(* Saving and the history write *)

\* C33: nothing is done between the moment 'Save to History' puts the round
\* in the history and the moment the game is cleared: while the write of a
\* save is under way the only step is the end of that write, so that a game
\* is saved as one round only
SavePending == \E i \in 1..Len(pendingWrites) : pendingWrites[i].resume

C33_SaveAtomic ==
  [][SavePending => (HistoryWriteDone \/ HistoryWriteFails)]_vars

\* 'Save to History' pressed twice: the history holds the same game twice
SavedTwice == Len(history) = 2 /\ history[1] = history[2]

\* C34: when the history write of a save fails, the game is cleared all the
\* same: the player count screen, two blank names, chips at zero, no hands,
\* and the round saved stays in the history held by the app
SaveFailed == HistoryWriteFails /\ Head(pendingWrites).resume

C34_FailedWriteClears ==
  [][SaveFailed =>
       (/\ step' = 1
        /\ playerNames' = ArrayFill(2, << >>)
        /\ chips' = ArrayFill(2, 0)
        /\ hands' = << >>
        /\ ~showSummary'
        /\ history' = history
        /\ Len(history') > 0)]_vars

-----------------------------------------------------------------------------
(* The history view and the game *)

\* C35: looking at the history does not touch the game.  The History button
\* leaves the players, names, chips, Rowie points, Rowie settings and hands as
\* they are, and so does leaving the view it opens, by 'Back to History' or
\* by 'Return to Current Game'; a round is picked from the list only over a
\* game not yet begun, and leaving the round gives that game back
GameKept ==
  UNCHANGED <<numPlayers, playerNames, chips, rowie, rowieSettings, hands>>

GameNotBegun ==
  /\ numPlayers = 2
  /\ playerNames = ArrayFill(2, << >>)
  /\ chips = ArrayFill(2, 0)
  /\ rowie = ArrayFill(2, 0)
  /\ rowieSettings = InitialRowieSettings
  /\ hands = << >>

LeavesHistoryView == exitHistoryView \/ handleReturnToGame

C35_HistoryViewKeepsGame ==
  /\ [](step = 1 => GameNotBegun)
  /\ [][handleHistoryMenu => GameKept]_vars
  /\ [][(LeavesHistoryView /\ selectedHistory = << >>) => GameKept]_vars
  /\ [][(LeavesHistoryView /\ selectedHistory # << >>) => GameNotBegun']_vars

\* the parts of C35 that hold: the list is shown over a game not yet begun,
\* and the History button leaves the game as it is
HistoryOpenedOverGame ==
  /\ [](step = 1 => GameNotBegun)
  /\ [][handleHistoryMenu => GameKept]_vars

-----------------------------------------------------------------------------
(* The chips before and after mercy *)

\* C36: whenever the summary is shown after mercy, preMercyChips are the chips
\* the game had when 'End Game' was accepted and the chips are their mercy
\* amounts, player by player; 'End Game' copies the chips to preMercyChips
\* and 'Calculate Mercy' leaves preMercyChips as they are
AfterMercyShown == showSummary /\ step \in {3, 4} /\ mercyApplied

C36_PreMercyChips ==
  /\ [](AfterMercyShown => chips = MercyChips(preMercyChips))
  /\ [][(handleFinish /\ showSummary') => preMercyChips' = chips]_vars
  /\ [][handleMercyCalculation => preMercyChips' = preMercyChips]_vars

\* C37: the mercy calculation treats chips won and chips lost alike: of two
\* players of whom one has won what the other has lost, the mercy amount of
\* the one is that of the other with the sign changed, also when the amount
\* is half way between two whole numbers (chips of 40, 120, ...)
C37_MercySymmetric ==
  calc.op = "mercy" =>
    \A i, j \in 1..Len(calc.points) :
      calc.points[i] = 0 - calc.points[j] => calc.out[i] = 0 - calc.out[j]

-----------------------------------------------------------------------------
(* The Rowie payouts and the pot *)

\* C38: each Rowie payout is rounded on its own, so the payouts need not add
\* up to the pot, numPlayers times the pot amount: for points none of which
\* is below zero and some above, the sum of the payouts is the pot to within
\* half a unit for every player paid, and there are such points for which
\* it is not the pot (C38_Witness)
NoneBelowSomeAbove(points) ==
  /\ \A i \in 1..Len(points) : points[i] >= 0
  /\ \E i \in 1..Len(points) : points[i] > 0

PlayersPaid(points) == Cardinality({i \in 1..Len(points) : points[i] > 0})

PayoutsLessPot == ReduceSum(calc.out) - calc.n * calc.potAmount

C38_PayoutsNearPot ==
  (calc.op = "rowie" /\ NoneBelowSomeAbove(calc.points)) =>
    /\ 2 * PayoutsLessPot <= PlayersPaid(calc.points)
    /\ 2 * (0 - PayoutsLessPot) <= PlayersPaid(calc.points)

\* the payouts of points none of which is below zero do not add up to the pot
C38_Witness ==
  /\ calc.op = "rowie"
  /\ NoneBelowSomeAbove(calc.points)
  /\ PayoutsLessPot # 0

====
